---- MODULE Spec2Model ----
(***************************************************************************)
(* Model of the SMS phishing detection pipeline (PhishingDetector.detect,  *)
(* the four analysis agents, the DetectionContext they share and the       *)
(* weighted aggregation of their verdicts).                                *)
(*                                                                         *)
(* Numbers.  A confidence is held in hundredths (80 stands for 0.80), an   *)
(* agent weight in tenths (15 stands for 1.5), so a weighted vote is held  *)
(* in thousandths.  final_confidence is a fraction [num, den], because the *)
(* aggregation divides two sums of votes.                                  *)
(***************************************************************************)
EXTENDS Integers, Sequences, FiniteSets, TLC

None == "None"

\* ------------------------------------------------------------------ bounds
MaxTokens == 2

\* --------------------------------------------------------------- config.py
CONFIDENCE_THRESHOLD_HIGH == 80

\* main.py: the agent_weights table of _aggregate_results, in tenths
agent_weights ==
    [SMSAgent |-> 10, URLAgent |-> 15, ContentAgent |-> 12, MetadataAgent |-> 10]

DefaultWeight == 10

\* ------------------------------------------------------------- arithmetic
Min(a, b) == IF a < b THEN a ELSE b
Max(a, b) == IF a > b THEN a ELSE b

\* a confidence c (hundredths) as the fraction final_confidence holds
Frac(n, d) == [num |-> n, den |-> d]
FracEq(f, g) == f.num * g.den = g.num * f.den
FracLess(f, g) == f.num * g.den < g.num * f.den

\* int(confidence * k) of the agents: confidence in hundredths, k an integer
IntPoints(confidence, k) == (confidence * k) \div 100

RECURSIVE SumPoints(_)
SumPoints(flags) ==
    IF flags = <<>> THEN 0
    ELSE flags[1].points + SumPoints(Tail(flags))

IsPrefix(s, t) == Len(s) <= Len(t) /\ SubSeq(t, 1, Len(s)) = s

\* ------------------------------------------------------ DetectionContext
\* The dataclass defaults.  detection_id and timestamp are the values the
\* default factories (uuid4, datetime.now) draw; the message timestamp, the
\* location data and the free-form metadata map are read by no stage of the
\* pipeline and are left out.
DetectionContext_new(detection_id, timestamp) ==
    [ detection_id |-> detection_id,
      timestamp |-> timestamp,
      sender_mobile_number |-> None,
      sender_message |-> None,
      urls_found |-> <<>>,
      expanded_urls |-> <<>>,
      url_shortener_used |-> FALSE,
      risk_score |-> 0,
      red_flags |-> <<>>,
      green_flags |-> <<>>,
      agent_results |-> <<>>,
      page_title |-> None,
      form_fields_detected |-> <<>>,
      security_headers_score |-> 0,
      final_verdict |-> None,
      final_confidence |-> Frac(0, 100),
      detected_by |-> None ]

\* dict[key] = value on a dict held as a function
DictSet(d, key, value) ==
    [k \in (DOMAIN d) \cup {key} |-> IF k = key THEN value ELSE d[k]]

\* A mutant of add_risk: the audit entry is appended but the score is not
\* increased.
add_risk_no_score(ctx, points, reason, agent_name) ==
    [ctx EXCEPT
        !.red_flags = Append(@, [agent |-> agent_name, reason |-> reason,
                                 points |-> points])]

add_risk(ctx, points, reason, agent_name) ==
    [ctx EXCEPT
        !.risk_score = @ + points,
        !.red_flags = Append(@, [agent |-> agent_name, reason |-> reason,
                                 points |-> points])]

add_green_flag(ctx, reason, agent_name) ==
    [ctx EXCEPT
        !.green_flags = Append(@, [agent |-> agent_name, reason |-> reason])]

set_agent_result(ctx, agent_name, result) ==
    [ctx EXCEPT !.agent_results = DictSet(@, agent_name, result)]

\* ---------------------------------------------------------------- utils.py
\* A message is a sequence of whitespace-separated tokens.  A token is a
\* record: scheme ("" when the token carries none), www (the host part
\* starts with "www."), host (the rest), dot (the token ends with a ".").
Token(scheme, www, host, dot) ==
    [scheme |-> scheme, www |-> www, host |-> host, dot |-> dot]

\* url_pattern: 'http[s]?://...[^\s]*' matches a token with a scheme, whole
url_pattern_matches(tok) == tok.scheme \in {"http://", "https://"}

\* www_pattern: 'www\.(...)+[a-zA-Z]{2,}(/[^\s]*)?' matches from "www." on,
\* whatever precedes it in the token, and never ends on the dot of a host
www_pattern_matches(tok) == tok.www

www_pattern_match(tok) == [tok EXCEPT !.scheme = "", !.dot = FALSE]

RECURSIVE findall_url(_)
findall_url(text) ==
    IF text = <<>> THEN <<>>
    ELSE (IF url_pattern_matches(text[1]) THEN <<text[1]>> ELSE <<>>)
         \o findall_url(Tail(text))

RECURSIVE findall_www(_)
findall_www(text) ==
    IF text = <<>> THEN <<>>
    ELSE (IF www_pattern_matches(text[1])
          THEN <<www_pattern_match(text[1])>> ELSE <<>>)
         \o findall_www(Tail(text))

\* 'http://' + url
AddHttp(url) == [url EXCEPT !.scheme = "http://"]

\* url[:-1] if url.endswith('.') else url
StripDot(url) == [url EXCEPT !.dot = FALSE]

extract_urls_from_text(text) ==
    LET urls == findall_url(text)
        www == findall_www(text)
        www_urls == [i \in 1..Len(www) |-> AddHttp(www[i])]
        all_urls == urls \o www_urls
    IN [i \in 1..Len(all_urls) |-> StripDot(all_urls[i])]

\* The oracle's reply is a sequence of lines [key, value]; key is what the
\* lower-cased line starts with.  A verdict value is a text, a confidence
\* value is <<n>> for the first numeric token n of the line, in hundredths,
\* and <<>> when the line holds no number, a reasoning value is a text.
Line(key, value) == [key |-> key, value |-> value]

\* the verdict texts that contain "safe", and those that contain "phishing"
TextsWithSafe == {"safe", "unsafe", "not safe", "safe/phishing"}
TextsWithPhishing == {"phishing", "safe/phishing"}

parse_verdict(verdict_text) ==
    IF verdict_text \in TextsWithSafe THEN "safe"
    ELSE IF verdict_text \in TextsWithPhishing THEN "phishing"
    ELSE "uncertain"

\* A mutant of parse_confidence: the value is not clamped.
parse_confidence_unclamped(conf_value) ==
    IF conf_value > 100 THEN conf_value \div 100 ELSE conf_value

parse_confidence(conf_value) ==
    LET v == IF conf_value > 100 THEN conf_value \div 100 ELSE conf_value
    IN Min(Max(v, 0), 100)

parse_line(result, line) ==
    IF line.key = "verdict"
    THEN [result EXCEPT !.verdict = parse_verdict(line.value)]
    ELSE IF line.key = "confidence"
    THEN (IF line.value = <<>> THEN result
          ELSE [result EXCEPT !.confidence = parse_confidence(line.value[1])])
    ELSE IF line.key = "reasoning"
    THEN [result EXCEPT !.reasoning = line.value]
    ELSE result

RECURSIVE parse_lines(_, _)
parse_lines(result, lines) ==
    IF lines = <<>> THEN result
    ELSE parse_lines(parse_line(result, lines[1]), Tail(lines))

parse_agent_response(response_text) ==
    parse_lines([verdict |-> "uncertain", confidence |-> 0,
                 reasoning |-> "Failed to parse response"], response_text)

\* ------------------------------------------------- the sites of the model
\* What the collaborators outside the pipeline (browser, whois, HTTP client)
\* answer for each host the messages of the model name:
\*   "s.ly/x"    a shortener that redirects to a credential-harvesting page
\*   "ok.com"    a well-configured https site
\*   "dead.com"  the browser raises WebDriverException
\*   "down.net"  the browser fails otherwise and every HTTP fetch fails
Url(scheme, www, host) == Token(scheme, www, host, FALSE)

EvilPage == Url("https://", FALSE, "evil.io/login")

expand_url_with_selenium(url) ==
    IF url.host = "dead.com"
    THEN [final_url |-> url, was_shortened |-> FALSE, is_phishing |-> TRUE,
          error_message |-> "ERR_NAME_NOT_RESOLVED"]
    ELSE IF url.host = "down.net"
    THEN [final_url |-> url, was_shortened |-> FALSE, is_phishing |-> FALSE,
          error_message |-> ""]
    ELSE LET final_url == IF url.host = "s.ly/x" THEN EvilPage ELSE url
         IN [final_url |-> final_url, was_shortened |-> (url # final_url),
             is_phishing |-> FALSE, error_message |-> ""]

check_malicious_javascript(url) ==
    IF url.host = "evil.io/login"
    THEN [has_suspicious_js |-> TRUE, suspicious_patterns |-> <<"eval(">>]
    ELSE [has_suspicious_js |-> FALSE, suspicious_patterns |-> <<>>]

\* whois.whois(url): the registry's answer holds dates as datetime objects;
\* when the lookup fails the code substitutes an object whose fields are
\* all None (<<>>).
whois(url) ==
    IF url.host = "down.net"
    THEN [expiration_date |-> <<>>]
    ELSE [expiration_date |->
              <<[type |-> "datetime", sec |-> 31536000, usec |-> 0]>>]

extract_url_features(url) ==
    [ is_https |-> (url.scheme = "https://"),
      has_ip_in_domain |-> FALSE,
      url_length |-> IF url.host = "evil.io/login" THEN 21 ELSE 15,
      special_chars |-> 0,
      expiration_date |-> whois(url).expiration_date ]

extract_content_features(url) ==
    IF url.host = "down.net"
    THEN [error |-> "ConnectionError", title |-> "", form_count |-> 0,
          password_fields |-> 0, has_contact_info |-> FALSE,
          external_links |-> 0]
    ELSE IF url.host = "s.ly/x"
    THEN [error |-> None, title |-> "Login", form_count |-> 3,
          password_fields |-> 1, has_contact_info |-> FALSE,
          external_links |-> 0]
    ELSE [error |-> None, title |-> "Welcome", form_count |-> 1,
          password_fields |-> 0, has_contact_info |-> TRUE,
          external_links |-> 2]

extract_metadata_features(url) ==
    IF url.host = "down.net"
    THEN [error |-> "ConnectionError", status_code |-> 0, is_https |-> FALSE,
          has_hsts |-> FALSE, has_csp |-> FALSE, has_xfo |-> FALSE,
          has_xcto |-> FALSE]
    ELSE IF url.host = "s.ly/x"
    THEN [error |-> None, status_code |-> 200,
          is_https |-> (url.scheme = "https://"),
          has_hsts |-> FALSE, has_csp |-> FALSE, has_xfo |-> FALSE,
          has_xcto |-> FALSE]
    ELSE [error |-> None, status_code |-> 200,
          is_https |-> (url.scheme = "https://"),
          has_hsts |-> TRUE, has_csp |-> TRUE, has_xfo |-> TRUE,
          has_xcto |-> TRUE]

\* ------------------------------------------------------------ sms_agent.py
\* response is the oracle's reply; <<>> (no text) is what query_llm's
\* failure looks like to "if response:".
\* A mutant of the result for a message without links: the confidence is
\* the threshold itself.
SMSAgent_no_urls_result_at_threshold(sender) ==
    [verdict |-> "safe", confidence |-> CONFIDENCE_THRESHOLD_HIGH,
     reasoning |-> "No URLs detected in SMS message",
     urls_found |-> <<>>, sender |-> sender]

\* lines 35-41: the result recorded for a message without links
SMSAgent_no_urls_result(sender) ==
    [verdict |-> "safe", confidence |-> 90,
     reasoning |-> "No URLs detected in SMS message",
     urls_found |-> <<>>, sender |-> sender]

SMSAgent_analyze(ctx, response) ==
    LET sender == IF ctx.sender_mobile_number \in {None, ""}
                  THEN "Unknown" ELSE ctx.sender_mobile_number
        urls_found == extract_urls_from_text(ctx.sender_message)
        c0 == [ctx EXCEPT !.urls_found = urls_found]
    IN IF urls_found = <<>>
       THEN LET result == SMSAgent_no_urls_result(sender)
            IN add_green_flag(set_agent_result(c0, "SMSAgent", result),
                              "No URLs detected in message", "SMSAgent")
       ELSE IF response # <<>>
       THEN LET parsed == parse_agent_response(response)
                result == [verdict |-> parsed.verdict,
                           confidence |-> parsed.confidence,
                           reasoning |-> parsed.reasoning,
                           urls_found |-> urls_found, sender |-> sender]
                c1 == set_agent_result(c0, "SMSAgent", result)
            IN IF result.verdict = "phishing"
               THEN add_risk(c1, IntPoints(result.confidence, 30),
                             result.reasoning, "SMSAgent")
               ELSE IF result.verdict = "safe"
               THEN add_green_flag(c1, result.reasoning, "SMSAgent")
               ELSE c1
       ELSE LET result == [verdict |-> "uncertain", confidence |-> 50,
                           reasoning |->
                               "Unable to analyze with LLM, but URLs detected",
                           urls_found |-> urls_found, sender |-> sender]
            IN add_risk(set_agent_result(c0, "SMSAgent", result), 10,
                        "URLs detected but LLM analysis failed", "SMSAgent")

\* ------------------------------------------------------------ url_agent.py
\* A mutant of _fallback_analysis: three suspicious features give 0.9.
URLAgent_fallback_analysis_confident(features, js_analysis) ==
    LET suspicious_count ==
              (IF ~features.is_https THEN 2 ELSE 0)
            + (IF features.has_ip_in_domain THEN 2 ELSE 0)
            + (IF features.url_length > 100 THEN 1 ELSE 0)
            + (IF features.special_chars > 3 THEN 1 ELSE 0)
            + (IF features.was_shortened THEN 1 ELSE 0)
            + (IF js_analysis.has_suspicious_js THEN 2 ELSE 0)
    IN IF suspicious_count >= 3 THEN [verdict |-> "phishing", confidence |-> 90]
       ELSE IF suspicious_count >= 1
       THEN [verdict |-> "uncertain", confidence |-> 40]
       ELSE [verdict |-> "safe", confidence |-> 60]

URLAgent_fallback_analysis(features, js_analysis) ==
    LET suspicious_count ==
              (IF ~features.is_https THEN 2 ELSE 0)
            + (IF features.has_ip_in_domain THEN 2 ELSE 0)
            + (IF features.url_length > 100 THEN 1 ELSE 0)
            + (IF features.special_chars > 3 THEN 1 ELSE 0)
            + (IF features.was_shortened THEN 1 ELSE 0)
            + (IF js_analysis.has_suspicious_js THEN 2 ELSE 0)
    IN IF suspicious_count >= 3 THEN [verdict |-> "phishing", confidence |-> 70]
       ELSE IF suspicious_count >= 1
       THEN [verdict |-> "uncertain", confidence |-> 40]
       ELSE [verdict |-> "safe", confidence |-> 60]

\* verdict, confidence = self._fallback_analysis(...) put into a result
Heuristic(fb) ==
    [verdict |-> fb.verdict, confidence |-> fb.confidence,
     reasoning |-> "Analyzed using heuristics"]

\* lines 41-59: the expansion found the link dead
URLAgent_expired(ctx, url, expansion_result) ==
    LET result ==
            [verdict |-> "phishing", confidence |-> 90,
             reasoning |-> "This link was expired and is probably a phishing link",
             url_features |-> <<>>,
             expanded_url |-> expansion_result.final_url,
             was_shortened |-> expansion_result.was_shortened,
             javascript_analysis |-> <<>>]
        c1 == set_agent_result(ctx, "URLAgent", result)
        c2 == [c1 EXCEPT
                 !.expanded_urls = DictSet(@, url, expansion_result.final_url),
                 !.url_shortener_used = expansion_result.was_shortened]
    IN add_risk(c2, 40, "Link expired or inaccessible", "URLAgent")

\* lines 69-75: the features of the final URL plus the expansion's
URLAgent_url_features(url, expansion_result, f0) ==
    [is_https |-> f0.is_https,
     has_ip_in_domain |-> f0.has_ip_in_domain,
     url_length |-> f0.url_length,
     special_chars |-> f0.special_chars,
     expiration_date |-> f0.expiration_date,
     original_url |-> url,
     expanded_url |-> expansion_result.final_url,
     was_shortened |-> expansion_result.was_shortened]

\* lines 119-142: the LLM's reply parsed, or the heuristics
URLAgent_verdict_data(response, url_features, js_analysis) ==
    IF response # <<>>
    THEN parse_agent_response(response)
    ELSE Heuristic(URLAgent_fallback_analysis(url_features, js_analysis))

URLAgent_result(verdict_data, url_features, js_analysis, expansion_result) ==
    [verdict |-> verdict_data.verdict,
     confidence |-> verdict_data.confidence,
     reasoning |-> verdict_data.reasoning,
     url_features |-> url_features,
     expanded_url |-> expansion_result.final_url,
     was_shortened |-> expansion_result.was_shortened,
     javascript_analysis |-> js_analysis]

\* lines 144-161: the result and the flags written to the context
URLAgent_update(ctx, url, expansion_result, js_analysis, result) ==
    LET c1 == set_agent_result(ctx, "URLAgent", result)
        c2 == [c1 EXCEPT
                 !.expanded_urls = DictSet(@, url, expansion_result.final_url),
                 !.url_shortener_used = expansion_result.was_shortened \/ @]
        c3 == IF result.verdict = "phishing"
              THEN add_risk(c2, IntPoints(result.confidence, 35),
                            result.reasoning, "URLAgent")
              ELSE IF result.verdict = "safe"
              THEN add_green_flag(c2, result.reasoning, "URLAgent")
              ELSE c2
        c4 == IF js_analysis.has_suspicious_js
              THEN add_risk(c3, 15, "Suspicious JavaScript patterns", "URLAgent")
              ELSE c3
    IN IF expansion_result.was_shortened
       THEN add_risk(c4, 5, "URL shortener detected", "URLAgent")
       ELSE c4

\* lines 61-142 with the features and the script analysis in hand
URLAgent_analyze_features(ctx, url, response, expansion_result, url_features, js_analysis) ==
    URLAgent_update(
        ctx, url, expansion_result, js_analysis,
        URLAgent_result(
            URLAgent_verdict_data(response, url_features, js_analysis),
            url_features, js_analysis, expansion_result))

URLAgent_analyze_expanded(ctx, url, response, expansion_result) ==
    IF expansion_result.is_phishing
    THEN URLAgent_expired(ctx, url, expansion_result)
    ELSE URLAgent_analyze_features(
             ctx, url, response, expansion_result,
             URLAgent_url_features(
                 url, expansion_result,
                 extract_url_features(expansion_result.final_url)),
             check_malicious_javascript(expansion_result.final_url))

URLAgent_analyze(ctx, url, response) ==
    URLAgent_analyze_expanded(ctx, url, response, expand_url_with_selenium(url))

\* -------------------------------------------------------- content_agent.py
ContentAgent_fallback_analysis(features) ==
    LET suspicious_count ==
              (IF features.password_fields > 0 THEN 2 ELSE 0)
            + (IF features.form_count > 2 THEN 1 ELSE 0)
            + (IF ~features.has_contact_info THEN 1 ELSE 0)
            + (IF features.external_links > 10 THEN 1 ELSE 0)
    IN IF suspicious_count >= 3 THEN [verdict |-> "phishing", confidence |-> 70]
       ELSE IF suspicious_count >= 1
       THEN [verdict |-> "uncertain", confidence |-> 50]
       ELSE [verdict |-> "safe", confidence |-> 60]

\* lines 72-90: the LLM's reply parsed, or the heuristics
ContentAgent_verdict_data(response, content_features) ==
    IF response # <<>>
    THEN parse_agent_response(response)
    ELSE Heuristic(ContentAgent_fallback_analysis(content_features))

ContentAgent_result(verdict_data, content_features) ==
    [verdict |-> verdict_data.verdict,
     confidence |-> verdict_data.confidence,
     reasoning |-> verdict_data.reasoning,
     content_features |-> content_features]

\* lines 92-108: the result and the flags written to the context
ContentAgent_update(ctx, content_features, result) ==
    LET c1 == set_agent_result(ctx, "ContentAgent", result)
        c2 == [c1 EXCEPT !.page_title = content_features.title]
        c3 == IF result.verdict = "phishing"
              THEN add_risk(c2, IntPoints(result.confidence, 25),
                            result.reasoning, "ContentAgent")
              ELSE IF result.verdict = "safe"
              THEN add_green_flag(c2, result.reasoning, "ContentAgent")
              ELSE c2
        c4 == IF content_features.password_fields > 0
              THEN [add_risk(c3, 10, "Password fields detected", "ContentAgent")
                      EXCEPT !.form_fields_detected = Append(@, "password")]
              ELSE c3
    IN IF content_features.form_count > 2
       THEN add_risk(c4, 5, "Multiple forms detected", "ContentAgent")
       ELSE c4

ContentAgent_analyze_fetched(ctx, response, content_features) ==
    IF content_features.error # None
    THEN add_risk(set_agent_result(ctx, "ContentAgent",
                      [verdict |-> "uncertain", confidence |-> 30,
                       reasoning |-> "Could not fetch content",
                       content_features |-> content_features]),
                  5, "Could not fetch content", "ContentAgent")
    ELSE ContentAgent_update(
             ctx, content_features,
             ContentAgent_result(
                 ContentAgent_verdict_data(response, content_features),
                 content_features))

ContentAgent_analyze(ctx, url, response) ==
    ContentAgent_analyze_fetched(ctx, response, extract_content_features(url))

\* ------------------------------------------------------- metadata_agent.py
MetadataAgent_fallback_analysis(features) ==
    LET missing_headers ==
              (IF ~features.has_hsts THEN 1 ELSE 0)
            + (IF ~features.has_csp THEN 1 ELSE 0)
            + (IF ~features.has_xfo THEN 1 ELSE 0)
            + (IF ~features.has_xcto THEN 1 ELSE 0)
        suspicious_count ==
              (IF ~features.is_https THEN 2 ELSE 0)
            + (IF missing_headers >= 3 THEN 1 ELSE 0)
            + (IF features.status_code \notin {200, 301, 302} THEN 1 ELSE 0)
    IN IF suspicious_count >= 3 THEN [verdict |-> "phishing", confidence |-> 70]
       ELSE IF suspicious_count >= 1
       THEN [verdict |-> "uncertain", confidence |-> 50]
       ELSE [verdict |-> "safe", confidence |-> 60]

\* lines 70-88: the LLM's reply parsed, or the heuristics
MetadataAgent_verdict_data(response, metadata_features) ==
    IF response # <<>>
    THEN parse_agent_response(response)
    ELSE Heuristic(MetadataAgent_fallback_analysis(metadata_features))

MetadataAgent_result(verdict_data, metadata_features) ==
    [verdict |-> verdict_data.verdict,
     confidence |-> verdict_data.confidence,
     reasoning |-> verdict_data.reasoning,
     metadata_features |-> metadata_features]

\* security_score: 25 for each security header present
MetadataAgent_security_score(metadata_features) ==
    ( (IF metadata_features.has_hsts THEN 1 ELSE 0)
    + (IF metadata_features.has_csp THEN 1 ELSE 0)
    + (IF metadata_features.has_xfo THEN 1 ELSE 0)
    + (IF metadata_features.has_xcto THEN 1 ELSE 0) ) * 25

\* lines 90-115: the result, the score and the flags written to the context
MetadataAgent_update(ctx, metadata_features, result, security_score) ==
    LET c1 == set_agent_result(ctx, "MetadataAgent", result)
        c2 == [c1 EXCEPT !.security_headers_score = security_score]
        c3 == IF result.verdict = "phishing"
              THEN add_risk(c2, IntPoints(result.confidence, 20),
                            result.reasoning, "MetadataAgent")
              ELSE IF result.verdict = "safe"
              THEN add_green_flag(c2, result.reasoning, "MetadataAgent")
              ELSE c2
        c4 == IF ~metadata_features.is_https
              THEN add_risk(c3, 15, "No HTTPS encryption", "MetadataAgent")
              ELSE c3
    IN IF security_score < 50
       THEN add_risk(c4, 10, "Poor security headers", "MetadataAgent")
       ELSE IF security_score >= 75
       THEN add_green_flag(c4, "Good security headers", "MetadataAgent")
       ELSE c4

MetadataAgent_analyze_fetched(ctx, response, metadata_features) ==
    IF metadata_features.error # None
    THEN set_agent_result(ctx, "MetadataAgent",
             [verdict |-> "uncertain", confidence |-> 30,
              reasoning |-> "Could not fetch metadata",
              metadata_features |-> metadata_features])
    ELSE MetadataAgent_update(
             ctx, metadata_features,
             MetadataAgent_result(
                 MetadataAgent_verdict_data(response, metadata_features),
                 metadata_features),
             MetadataAgent_security_score(metadata_features))

MetadataAgent_analyze(ctx, url, response) ==
    MetadataAgent_analyze_fetched(ctx, response, extract_metadata_features(url))

\* ------------------------------------------------ main.py: the aggregator
\* dict.get(key, default)
DictGet(d, key, default) == IF key \in DOMAIN d THEN d[key] ELSE default

\* A mutant of Weight: the table is keyed by other names than the results,
\* so every lookup yields the default.
Weight_default(agent_name) == DefaultWeight

\* agent_weights.get(agent_name, 1.0)
Weight(agent_name) == DictGet(agent_weights, agent_name, DefaultWeight)

\* The loop over context.agent_results.items(): the sum of
\* confidence * weight over the results whose verdict is `verdict`.
RECURSIVE weighted_votes(_, _, _)
weighted_votes(results, names, verdict) ==
    IF names = {} THEN 0
    ELSE LET agent_name == CHOOSE n \in names : TRUE
             result == results[agent_name]
             weighted_confidence == result.confidence * Weight(agent_name)
         IN (IF result.verdict = verdict THEN weighted_confidence ELSE 0)
            + weighted_votes(results, names \ {agent_name}, verdict)

\* A mutant of aggregate_results: the first comparison is >= instead of >,
\* so a tie of non-zero votes goes to phishing.
aggregate_results_tie_phishing(ctx) ==
    LET results == ctx.agent_results
        phishing_votes == weighted_votes(results, DOMAIN results, "phishing")
        safe_votes == weighted_votes(results, DOMAIN results, "safe")
        total_votes == phishing_votes + safe_votes
    IN IF total_votes = 0
       THEN [verdict |-> "uncertain", confidence |-> Frac(1, 2),
             phishing_votes |-> phishing_votes, safe_votes |-> safe_votes]
       ELSE IF phishing_votes >= safe_votes
       THEN [verdict |-> "phishing",
             confidence |-> Frac(phishing_votes, total_votes),
             phishing_votes |-> phishing_votes, safe_votes |-> safe_votes]
       ELSE [verdict |-> "safe",
             confidence |-> Frac(safe_votes, total_votes),
             phishing_votes |-> phishing_votes, safe_votes |-> safe_votes]

\* _aggregate_results.  The returned record also carries the two
\* accumulators the function computes on the way.
aggregate_results(ctx) ==
    LET results == ctx.agent_results
        phishing_votes == weighted_votes(results, DOMAIN results, "phishing")
        safe_votes == weighted_votes(results, DOMAIN results, "safe")
        total_votes == phishing_votes + safe_votes
    IN IF total_votes = 0
       THEN [verdict |-> "uncertain", confidence |-> Frac(1, 2),
             phishing_votes |-> phishing_votes, safe_votes |-> safe_votes]
       ELSE IF phishing_votes > safe_votes
       THEN [verdict |-> "phishing",
             confidence |-> Frac(phishing_votes, total_votes),
             phishing_votes |-> phishing_votes, safe_votes |-> safe_votes]
       ELSE IF safe_votes > phishing_votes
       THEN [verdict |-> "safe",
             confidence |-> Frac(safe_votes, total_votes),
             phishing_votes |-> phishing_votes, safe_votes |-> safe_votes]
       ELSE [verdict |-> "uncertain", confidence |-> Frac(1, 2),
             phishing_votes |-> phishing_votes, safe_votes |-> safe_votes]

\* ----------------------------------------------- main.py: detect, by layer
\* The early-exit tests of detect on a recorded result ({} when absent).
\* A mutant of sms_exit: the comparison is >= instead of >.
sms_exit_ge(result) ==
    /\ DictGet(result, "verdict", None) = "safe"
    /\ DictGet(result, "confidence", 0) >= CONFIDENCE_THRESHOLD_HIGH

sms_exit(result) ==
    /\ DictGet(result, "verdict", None) = "safe"
    /\ DictGet(result, "confidence", 0) > CONFIDENCE_THRESHOLD_HIGH

\* A mutant of phishing_exit: the comparison is >= instead of >.
phishing_exit_ge(result) ==
    /\ DictGet(result, "verdict", None) = "phishing"
    /\ DictGet(result, "confidence", 0) >= CONFIDENCE_THRESHOLD_HIGH

phishing_exit(result) ==
    /\ DictGet(result, "verdict", None) = "phishing"
    /\ DictGet(result, "confidence", 0) > CONFIDENCE_THRESHOLD_HIGH

\* context.final_verdict, final_confidence and detected_by, set together
conclude(ctx, verdict, confidence, detected_by) ==
    [ctx EXCEPT !.final_verdict = verdict,
                !.final_confidence = confidence,
                !.detected_by = detected_by]

\* A mutant of after_exit: an exit branch does not return but falls through
\* to the aggregation.
after_exit_fallthrough == "aggregate"

\* A mutant of after_exit: an exit branch builds the report without having
\* saved the context.
after_exit_unsaved == "report"

\* Where detect goes on after an early exit has set the verdict: the
\* save/report/return block that closes each exit branch.
after_exit == "save"

\* Each layer yields the context it leaves and the position detect reaches.
Outcome(ctx, next) == [context |-> ctx, next |-> next]

\* A mutant of sms_tests: the message-stage exit writes the verdict of the
\* link-stage exits, 'phishing'.
sms_tests_wrong_verdict(c1, sms_result) ==
    IF sms_exit(sms_result)
    THEN Outcome(conclude(c1, "phishing", Frac(sms_result.confidence, 100),
                          "SMS Analysis"), "save")
    ELSE IF c1.urls_found = <<>>
    THEN Outcome(conclude(c1, "safe",
                          Frac(DictGet(sms_result, "confidence", 90), 100),
                          "SMS Analysis"), "save")
    ELSE Outcome(c1, "layer2")

\* The two tests that follow Layer 1 (lines 97-132): c1 is the context the
\* SMS agent returned, sms_result its entry for 'SMSAgent'.
sms_tests(c1, sms_result) ==
    IF sms_exit(sms_result)
    THEN Outcome(conclude(c1, "safe", Frac(sms_result.confidence, 100),
                          "SMS Analysis"), after_exit)
    ELSE IF c1.urls_found = <<>>
    THEN Outcome(conclude(c1, "safe",
                          Frac(DictGet(sms_result, "confidence", 90), 100),
                          "SMS Analysis"), after_exit)
    ELSE Outcome(c1, "layer2")

\* context.agent_results.get(agent_name, {})
agent_result(c1, agent_name) == DictGet(c1.agent_results, agent_name, <<>>)

\* Layer 1 and its tests (lines 94-132)
detect_layer1_analyzed(c1) == sms_tests(c1, agent_result(c1, "SMSAgent"))

detect_layer1(ctx, response) ==
    detect_layer1_analyzed(SMSAgent_analyze(ctx, response))

\* The test that follows a link stage (lines 143-160, 164-181, 185-202):
\* c1 is the context the agent returned, result its entry, next the
\* position reached when the test fails.
phishing_test(c1, result, detected_by, next) ==
    IF phishing_exit(result)
    THEN Outcome(conclude(c1, "phishing", Frac(result.confidence, 100),
                          detected_by), after_exit)
    ELSE Outcome(c1, next)

link_stage_test(c1, agent_name, detected_by, next) ==
    phishing_test(c1, agent_result(c1, agent_name), detected_by, next)

\* Layer 2 on one link and its test (lines 141-160)
detect_layer2(ctx, url, response) ==
    link_stage_test(URLAgent_analyze(ctx, url, response),
                    "URLAgent", "URL Analysis", "layer3")

\* Layer 3 on one link and its test (lines 162-181)
detect_layer3(ctx, url, response) ==
    link_stage_test(ContentAgent_analyze(ctx, url, response),
                    "ContentAgent", "Content Analysis", "layer4")

\* A mutant of detect_layer4: the aggregation follows the first link's
\* metadata stage instead of the end of the loop.
detect_layer4_aggregate_in_loop(ctx, url, response) ==
    link_stage_test(MetadataAgent_analyze(ctx, url, response),
                    "MetadataAgent", "Metadata Analysis", "aggregate")

\* A mutant of detect_layer4: the loop goes back to Layer 2 on the same
\* link instead of moving to the next one.
detect_layer4_repeat(ctx, url, response) ==
    link_stage_test(MetadataAgent_analyze(ctx, url, response),
                    "MetadataAgent", "Metadata Analysis", "layer2")

\* Layer 4 on one link and its test (lines 183-202); "next_url" stands for
\* the end of the loop body
detect_layer4(ctx, url, response) ==
    link_stage_test(MetadataAgent_analyze(ctx, url, response),
                    "MetadataAgent", "Metadata Analysis", "next_url")

\* lines 226-231
detect_aggregate(ctx) ==
    LET final_verdict_data == aggregate_results(ctx)
    IN conclude(ctx, final_verdict_data.verdict, final_verdict_data.confidence,
                "Aggregated Analysis")

\* --------------------------------------------------------- json_storage.py
\* A timestamp is [sec, usec], sec counting the seconds since the start of
\* the first day.  strftime('%Y%m%d_%H%M%S') gives digits for the date and
\* for the time to the second: here one digit for the day and two for the
\* second (the timestamps of the model lie in the first minute of a day).
Digit(n) == <<"0", "1", "2", "3", "4", "5", "6", "7", "8", "9">>[n + 1]

DaySeconds == 86400

strftime_seconds(timestamp) ==
    << Digit(timestamp.sec \div DaySeconds),
       Digit((timestamp.sec % DaySeconds) \div 10),
       Digit((timestamp.sec % DaySeconds) % 10) >>

\* detection_id[:8]
IdPrefix(detection_id) == SubSeq(detection_id, 1, Min(8, Len(detection_id)))

\* json.dumps(..., default=str): a value the encoder does not know (a
\* datetime inside a payload) is written as its str(); None is written as
\* null.
default_str(value) ==
    IF value = <<>> THEN value ELSE <<[value[1] EXCEPT !.type = "str"]>>

json_dumps_features(features) ==
    IF "expiration_date" \in DOMAIN features
    THEN [features EXCEPT !.expiration_date = default_str(@)]
    ELSE features

json_dumps_result(result) ==
    IF "url_features" \in DOMAIN result
    THEN [result EXCEPT !.url_features = json_dumps_features(@)]
    ELSE result

json_dumps_results(agent_results) ==
    [agent_name \in DOMAIN agent_results |->
        json_dumps_result(agent_results[agent_name])]

\* to_json: the record with its timestamp in ISO text form and every
\* payload as json.dumps writes it
to_json(ctx) ==
    [ctx EXCEPT !.timestamp = <<"iso", @.sec, @.usec>>,
                !.agent_results = json_dumps_results(@)]

\* from_json: only the top-level timestamp is converted back

from_json(json) == [json EXCEPT !.timestamp = [sec |-> @[2], usec |-> @[3]]]

\* the name of the file save_detection writes
\* (f"{timestamp_str}_{context.detection_id[:8]}.json" without the ".json"
\* that every name of the directory ends with)
detection_filename(ctx) ==
    strftime_seconds(ctx.timestamp) \o <<"_">> \o IdPrefix(ctx.detection_id)

\* files: the storage directory, file name -> file content
save_detection(files, ctx) == DictSet(files, detection_filename(ctx), to_json(ctx))

\* The order of str on the characters of file names (ASCII)
Alphabet ==
    << "-", "0", "1", "2", "3", "4", "5", "6", "7", "8", "9", "_",
       "a", "b", "c", "d", "e", "f" >>

CharRank(c) == CHOOSE i \in 1..Len(Alphabet) : Alphabet[i] = c

RECURSIVE LexLess(_, _)
LexLess(s, t) ==
    IF t = <<>> THEN FALSE
    ELSE IF s = <<>> THEN TRUE
    ELSE IF s[1] = t[1] THEN LexLess(Tail(s), Tail(t))
    ELSE CharRank(s[1]) < CharRank(t[1])

\* sorted(names, reverse=True)
RECURSIVE sorted_reverse(_)
sorted_reverse(names) ==
    IF names = {} THEN <<>>
    ELSE LET m == CHOOSE x \in names : \A y \in names \ {x} : LexLess(y, x)
         IN <<m>> \o sorted_reverse(names \ {m})

IsSubstring(x, s) ==
    \E i \in 0..(Len(s) - Len(x)) : SubSeq(s, i + 1, i + Len(x)) = x

\* storage_dir.glob(f'*{detection_id}*.json'): the names holding the text
glob_id(files, detection_id) ==
    {f \in DOMAIN files : IsSubstring(detection_id, f)}

\* load_detection: None is <<>>, a record ctx is <<ctx>>.  glob yields the
\* matching files in the directory's order, which the program does not
\* control: every match can be the first, so this is the set of the values
\* load_detection can return.
load_detection(files, detection_id) ==
    IF glob_id(files, detection_id) = {}
    THEN {<<>>}
    ELSE {<<from_json(files[f])>> : f \in glob_id(files, detection_id)}

load_sorted(files, names) ==
    [i \in 1..Len(names) |-> from_json(files[names[i]])]

\* load_latest
load_latest(files) ==
    IF DOMAIN files = {} THEN <<>>
    ELSE <<from_json(files[sorted_reverse(DOMAIN files)[1]])>>

\* files[:limit] under "if limit:"; limit None is <<>>, limit n is <<n>>
limit_files(names, limit) ==
    IF limit # <<>> /\ limit[1] # 0
    THEN SubSeq(names, 1, Min(limit[1], Len(names)))
    ELSE names

\* load_all_detections
load_all_detections(files, limit) ==
    load_sorted(files, limit_files(sorted_reverse(DOMAIN files), limit))

\* datetime's <
timestamp_lt(a, b) == a.sec < b.sec \/ (a.sec = b.sec /\ a.usec < b.usec)

\* A mutant of cutoff_date: the retention period is not subtracted.
cutoff_date_now(now, days) == now

\* datetime.now() - timedelta(days=days)
cutoff_date(now, days) ==
    [sec |-> now.sec - days * DaySeconds, usec |-> now.usec]

old_files(files, cutoff) ==
    {f \in DOMAIN files : timestamp_lt(from_json(files[f]).timestamp, cutoff)}

unlink(files, names) == [f \in (DOMAIN files) \ names |-> files[f]]

\* cleanup_old_detections: the directory it leaves and the count it returns
cleanup_old_detections(files, now, days) ==
    [files |-> unlink(files, old_files(files, cutoff_date(now, days))),
     deleted_count |->
         Cardinality(old_files(files, cutoff_date(now, days)))]

search_by_sender(files, sender_number) ==
    {f \in DOMAIN files : from_json(files[f]).sender_mobile_number = sender_number}

\* ---------------------------------------------------------- report_agent.py
generate_report(ctx, files) ==
    [ detection_id |-> ctx.detection_id,
      timestamp |-> ctx.timestamp,
      executive_summary |->
          [verdict |-> ctx.final_verdict, confidence |-> ctx.final_confidence],
      risk_analysis |-> [total_risk_score |-> ctx.risk_score],
      historical_patterns |->
          IF ctx.sender_mobile_number \notin {None, ""}
             /\ Cardinality(search_by_sender(files, ctx.sender_mobile_number)) > 1
          THEN <<"repeat_sender">> ELSE <<>>,
      forensic_timeline |-> [red |-> ctx.red_flags, green |-> ctx.green_flags],
      statistics |-> [total_agents_run |-> Cardinality(DOMAIN ctx.agent_results),
                      total_red_flags |-> Len(ctx.red_flags),
                      total_green_flags |-> Len(ctx.green_flags),
                      urls_analyzed |-> Len(ctx.urls_found)] ]

\* the name of the file save_report_to_file writes
report_filename(ctx) == strftime_seconds(ctx.timestamp)

save_report_to_file(files, report, ctx) ==
    DictSet(files, report_filename(ctx), report)

\* _create_final_report
create_final_report(ctx, report) ==
    [ verdict |-> ctx.final_verdict,
      confidence |-> ctx.final_confidence,
      detected_by |-> ctx.detected_by,
      detection_id |-> ctx.detection_id,
      risk_score |-> ctx.risk_score,
      context |-> ctx,
      detailed_report |-> report ]

\* ------------------------------------------------------------------ inputs
Word == Token("", FALSE, "hello", FALSE)
ShortLink == Token("http://", FALSE, "s.ly/x", FALSE)
OkLink == Token("https://", FALSE, "ok.com", FALSE)
DeadLink == Token("", TRUE, "dead.com", FALSE)
DownLink == Token("http://", FALSE, "down.net", TRUE)

MsgTokens == {Word, ShortLink, OkLink, DeadLink, DownLink}

Messages == UNION {[1..n -> MsgTokens] : n \in 0..MaxTokens}

Senders == {"+6591234567"}

DetectionIds == {<<"3", "f", "a", "8", "5", "f", "6", "4", "-">>}

Timestamps == {[sec |-> 0, usec |-> 0]}

Reply(verdict_text, conf_value) ==
    << Line("verdict", verdict_text), Line("confidence", <<conf_value>>),
       Line("reasoning", "LLM reasoning") >>

NoReply == <<>>

\* What the oracle may answer to each agent: nothing, or a verdict with a
\* confidence at or just above CONFIDENCE_THRESHOLD_HIGH.
SMSReplies ==
    { NoReply, Reply("safe", 80), Reply("safe", 81), Reply("phishing", 80) }

URLReplies ==
    { NoReply, Reply("safe", 81), Reply("phishing", 80), Reply("phishing", 81) }

ContentReplies == { NoReply, Reply("phishing", 80), Reply("phishing", 81) }

MetadataReplies == { NoReply, Reply("phishing", 80), Reply("phishing", 81) }

\* ------------------------------------------------------------------- state
VARIABLES
    pc,          \* where detect stands
    context,     \* the DetectionContext of the detection
    url_index,   \* the position of the loop over context.urls_found
    detections,  \* the files of the storage directory
    reports,     \* the files of the reports directory
    report,      \* detect's local: the generated report
    returned,    \* what detect returned
    trace        \* the calls detect has made, in order, with what they recorded

vars == <<pc, context, url_index, detections, reports, report, returned, trace>>

Event(op, link, url, result) ==
    [op |-> op, link |-> link, url |-> url, result |-> result]

NoUrl == Token("", FALSE, "", FALSE)

Init ==
    /\ pc = "idle"
    /\ context = None
    /\ url_index = 0
    /\ detections = <<>>
    /\ reports = <<>>
    /\ report = None
    /\ returned = None
    /\ trace = <<>>

\* detect(sms_text, sender): the Context is created (lines 77-93)
Detect(sms_text, sender, detection_id, timestamp) ==
    /\ pc = "idle"
    /\ context' = [DetectionContext_new(detection_id, timestamp) EXCEPT
                      !.sender_message = sms_text,
                      !.sender_mobile_number = sender]
    /\ pc' = "layer1"
    /\ UNCHANGED <<url_index, detections, reports, report, returned, trace>>

Layer1(response) ==
    /\ pc = "layer1"
    /\ \E out \in {detect_layer1(context, response)} :
          /\ context' = out.context
          /\ pc' = out.next
          /\ url_index' = IF out.next = "layer2" THEN 1 ELSE url_index
          /\ trace' = Append(trace, Event("SMSAgent", 0, NoUrl,
                                          out.context.agent_results["SMSAgent"]))
    /\ UNCHANGED <<detections, reports, report, returned>>

Layer2(response) ==
    /\ pc = "layer2"
    /\ \E url \in {context.urls_found[url_index]} :
       \E out \in {detect_layer2(context, url, response)} :
          /\ context' = out.context
          /\ pc' = out.next
          /\ trace' = Append(trace, Event("URLAgent", url_index, url,
                                          out.context.agent_results["URLAgent"]))
    /\ UNCHANGED <<url_index, detections, reports, report, returned>>

Layer3(response) ==
    /\ pc = "layer3"
    /\ \E url \in {context.urls_found[url_index]} :
       \E out \in {detect_layer3(context, url, response)} :
          /\ context' = out.context
          /\ pc' = out.next
          /\ trace' = Append(trace, Event("ContentAgent", url_index, url,
                                     out.context.agent_results["ContentAgent"]))
    /\ UNCHANGED <<url_index, detections, reports, report, returned>>

Layer4(response) ==
    /\ pc = "layer4"
    /\ \E url \in {context.urls_found[url_index]} :
       \E out \in {detect_layer4(context, url, response)} :
       \E more \in {url_index < Len(context.urls_found)} :
          /\ context' = out.context
          /\ pc' = IF out.next # "next_url" THEN out.next
                   ELSE IF more THEN "layer2" ELSE "aggregate"
          /\ url_index' = IF out.next = "next_url" /\ more
                          THEN url_index + 1 ELSE url_index
          /\ trace' = Append(trace, Event("MetadataAgent", url_index, url,
                                    out.context.agent_results["MetadataAgent"]))
    /\ UNCHANGED <<detections, reports, report, returned>>

Aggregate ==
    /\ pc = "aggregate"
    /\ context' = detect_aggregate(context)
    /\ pc' = "save"
    /\ trace' = Append(trace, Event("aggregate", 0, NoUrl,
                                    aggregate_results(context)))
    /\ UNCHANGED <<url_index, detections, reports, report, returned>>

SaveDetection ==
    /\ pc = "save"
    /\ detections' = save_detection(detections, context)
    /\ pc' = "report"
    /\ trace' = Append(trace, Event("save_detection", 0, NoUrl, <<>>))
    /\ UNCHANGED <<context, url_index, reports, report, returned>>

\* A mutant of GenerateReport: building the timeline consumes the context's
\* own flag lists instead of copying from them.
GenerateReport_consuming_flags ==
    /\ pc = "report"
    /\ report' = generate_report(context, detections)
    /\ context' = [context EXCEPT !.red_flags = <<>>, !.green_flags = <<>>]
    /\ pc' = "write"
    /\ trace' = Append(trace, Event("generate_report", 0, NoUrl, <<>>))
    /\ UNCHANGED <<url_index, detections, reports, returned>>

GenerateReport ==
    /\ pc = "report"
    /\ report' = generate_report(context, detections)
    /\ pc' = "write"
    /\ trace' = Append(trace, Event("generate_report", 0, NoUrl, <<>>))
    /\ UNCHANGED <<context, url_index, detections, reports, returned>>

SaveReportToFile ==
    /\ pc = "write"
    /\ reports' = save_report_to_file(reports, report, context)
    /\ pc' = "return"
    /\ trace' = Append(trace, Event("save_report_to_file", 0, NoUrl, <<>>))
    /\ UNCHANGED <<context, url_index, detections, report, returned>>

Return ==
    /\ pc = "return"
    /\ returned' = create_final_report(context, report)
    /\ pc' = "done"
    /\ UNCHANGED <<context, url_index, detections, reports, report, trace>>

Next ==
    \/ \E sms_text \in Messages, sender \in Senders,
          detection_id \in DetectionIds, timestamp \in Timestamps :
          Detect(sms_text, sender, detection_id, timestamp)
    \/ \E response \in SMSReplies : Layer1(response)
    \/ \E response \in URLReplies : Layer2(response)
    \/ \E response \in ContentReplies : Layer3(response)
    \/ \E response \in MetadataReplies : Layer4(response)
    \/ Aggregate
    \/ SaveDetection
    \/ GenerateReport
    \/ SaveReportToFile
    \/ Return

Spec == Init /\ [][Next]_vars

\* ------------------------------------------- detect with a failing disk
\* save_detection has no handler around open() and write() (json_storage.py
\* 45-46) and detect has none around save_detection (main.py 243): an
\* OSError leaves detect as an exception.  written tells whether open() had
\* already created (and truncated) the file when the error came.
EmptyFile == <<>>

SaveDetectionRaises(written) ==
    /\ pc = "save"
    /\ detections' = IF written
                     THEN DictSet(detections, detection_filename(context),
                                  EmptyFile)
                     ELSE detections
    /\ pc' = "raised"
    /\ trace' = Append(trace, Event("save_detection_raises", 0, NoUrl, <<>>))
    /\ UNCHANGED <<context, url_index, reports, report, returned>>

NextIO ==
    \/ Next
    \/ \E written \in BOOLEAN : SaveDetectionRaises(written)

SpecIO == Init /\ [][NextIO]_vars

\* ------------------------------------------- detect when every call returns
\* Once detect has been called, each stage call, the aggregation, the save
\* and the report calls return, so detect takes its next step.
DetectStep == pc # "idle" /\ Next

SpecLive == Init /\ [][Next]_vars /\ WF_vars(DetectStep)

\* ------------------------------------- the aggregator on its own inputs
\* _aggregate_results applied to any recorded results of the four agents.
\* The confidences are values on which the program's floating-point sums
\* and the exact ones of this model compare alike.
AgentNames == {"SMSAgent", "URLAgent", "ContentAgent", "MetadataAgent"}

AggConfidences == {0, 60, 100}

AggResults ==
    [verdict : {"safe", "phishing", "uncertain"}, confidence : AggConfidences,
     reasoning : {"LLM reasoning"}]

AggInputs == UNION {[names -> AggResults] : names \in SUBSET AgentNames}

InitAgg ==
    /\ pc = "aggregator"
    /\ \E detection_id \in DetectionIds, timestamp \in Timestamps,
          results \in AggInputs :
          context = [DetectionContext_new(detection_id, timestamp) EXCEPT
                        !.agent_results = results]
    /\ url_index = 0
    /\ detections = <<>>
    /\ reports = <<>>
    /\ report = None
    /\ returned = None
    /\ trace = <<>>

AggregateResults ==
    /\ pc = "aggregator"
    /\ trace' = <<Event("aggregate", 0, NoUrl, aggregate_results(context))>>
    /\ pc' = "aggregated"
    /\ UNCHANGED <<context, url_index, detections, reports, report, returned>>

NextAgg == AggregateResults

SpecAgg == InitAgg /\ [][NextAgg]_vars

\* ----------------------------------------------- the store over many runs
\* Completed detections written one after the other into the two
\* directories, and the queries of JSONStorage on what they left.
MaxDetections == 2

\* uuid4 texts, cut after the tenth character
StoreIds ==
    { <<"3", "f", "a", "8", "5", "f", "6", "4", "-", "a">>,
      <<"3", "f", "a", "8", "5", "f", "6", "4", "-", "b">>,
      <<"3", "f", "a", "0", "0", "0", "0", "0", "-", "c">>,
      <<"0", "0", "c", "0", "f", "f", "e", "e", "-", "d">> }

\* datetime.now() at the creation of a context
StoreTimestamps ==
    { [sec |-> 0, usec |-> 0], [sec |-> 0, usec |-> 1],
      [sec |-> 1, usec |-> 0], [sec |-> DaySeconds, usec |-> 0] }

\* datetime.now() inside cleanup_old_detections, and its argument
StoreNows == { [sec |-> 1, usec |-> 1], [sec |-> DaySeconds, usec |-> 1] }

StoreDays == {0, 1}

\* the texts load_detection is asked for: full ids, their first eight
\* characters, shorter prefixes, a text from the middle of an id
LoadTexts ==
    StoreIds
    \cup {IdPrefix(id) : id \in StoreIds}
    \cup {SubSeq(id, 1, 2) : id \in StoreIds}
    \cup {<<"8", "5", "f">>, <<"b", "b">>}

Limits == {<<>>} \cup {<<n>> : n \in 0..MaxDetections}

\* the context a run of detect leaves for a message without links
StoreContext(detection_id, timestamp) ==
    detect_layer1([DetectionContext_new(detection_id, timestamp) EXCEPT
                      !.sender_message = <<Word>>,
                      !.sender_mobile_number = "+6591234567"],
                  NoReply).context

IsDetectEvent(e) == e.op = "detect"

IsCleanupEvent(e) == e.op = "cleanup_old_detections"

\* the contexts of the detections completed so far, oldest first
Completed ==
    [i \in 1..Len(SelectSeq(trace, IsDetectEvent)) |->
        SelectSeq(trace, IsDetectEvent)[i].result]

Query(op, arg, result) == [op |-> op, arg |-> arg, result |-> result]

InitStore ==
    /\ pc = "store"
    /\ context = None
    /\ url_index = 0
    /\ detections = <<>>
    /\ reports = <<>>
    /\ report = None
    /\ returned = None
    /\ trace = <<>>

\* lines 242-247 of detect for one more detection
CompleteDetection(detection_id, timestamp) ==
    /\ pc \in {"store", "queried"}
    /\ Len(Completed) < MaxDetections
    /\ \A i \in 1..Len(Completed) :
          /\ Completed[i].detection_id # detection_id
          /\ timestamp_lt(Completed[i].timestamp, timestamp)
    /\ \E ctx \in {StoreContext(detection_id, timestamp)} :
       \E saved \in {save_detection(detections, ctx)} :
       \E rep \in {generate_report(ctx, saved)} :
          /\ detections' = saved
          /\ report' = rep
          /\ reports' = save_report_to_file(reports, rep, ctx)
          /\ context' = ctx
          /\ returned' = create_final_report(ctx, rep)
          /\ trace' = Append(trace, Event("detect", 0, NoUrl, ctx))
    /\ pc' = "store"
    /\ UNCHANGED url_index

LoadDetection(detection_id) ==
    /\ pc \in {"store", "queried"}
    /\ \E result \in load_detection(detections, detection_id) :
          returned' = Query("load_detection", detection_id, result)
    /\ pc' = "queried"
    /\ UNCHANGED <<context, url_index, detections, reports, report, trace>>

LoadLatest ==
    /\ pc \in {"store", "queried"}
    /\ returned' = Query("load_latest", <<>>, load_latest(detections))
    /\ pc' = "queried"
    /\ UNCHANGED <<context, url_index, detections, reports, report, trace>>

LoadAllDetections(limit) ==
    /\ pc \in {"store", "queried"}
    /\ returned' = Query("load_all_detections", limit,
                         load_all_detections(detections, limit))
    /\ pc' = "queried"
    /\ UNCHANGED <<context, url_index, detections, reports, report, trace>>

CleanupOldDetections(now, days) ==
    /\ pc \in {"store", "queried"}
    /\ SelectSeq(trace, IsCleanupEvent) = <<>>
    /\ \A i \in 1..Len(Completed) : timestamp_lt(Completed[i].timestamp, now)
    /\ \E out \in {cleanup_old_detections(detections, now, days)} :
          /\ detections' = out.files
          /\ returned' = Query("cleanup_old_detections", <<now, days>>,
                               out.deleted_count)
    /\ trace' = Append(trace, Event("cleanup_old_detections", 0, NoUrl,
                                    <<now, days>>))
    /\ pc' = "queried"
    /\ UNCHANGED <<context, url_index, reports, report>>

NextStore ==
    \/ \E detection_id \in StoreIds, timestamp \in StoreTimestamps :
          CompleteDetection(detection_id, timestamp)
    \/ \E detection_id \in LoadTexts : LoadDetection(detection_id)
    \/ LoadLatest
    \/ \E limit \in Limits : LoadAllDetections(limit)
    \/ \E now \in StoreNows, days \in StoreDays :
          CleanupOldDetections(now, days)

SpecStore == InitStore /\ [][NextStore]_vars

\* ------------------------------------------ the parser on its own inputs
\* parse_agent_response applied to replies whose 'Confidence:' line is given
\* character by character, so that the search for the number
\* (re.search(r'\d+\.?\d*', conf_text), then float) is part of the model.
\* Numbers are in hundredths; decimals beyond the second are cut.
MaxChars == 3

IsDigit(c) == \E n \in 0..9 : Digit(n) = c

DigitValue(c) == CHOOSE n \in 0..9 : Digit(n) = c

\* the end of the run of digits that starts at position i (i - 1: no digit)
RECURSIVE digits_end(_, _)
digits_end(text, i) ==
    IF i <= Len(text) /\ IsDigit(text[i])
    THEN digits_end(text, i + 1) ELSE i - 1

\* int() of the digits text[i..j]
RECURSIVE digits_value(_, _, _)
digits_value(text, i, j) ==
    IF j < i THEN 0
    ELSE 10 * digits_value(text, i, j - 1) + DigitValue(text[j])

\* the digits text[i..j] read as the decimals of a number, in hundredths
decimals_value(text, i, j) ==
      (IF i <= j THEN 10 * DigitValue(text[i]) ELSE 0)
    + (IF i + 1 <= j THEN DigitValue(text[i + 1]) ELSE 0)

\* float(conf_match.group()) for a match that starts at i: \d+ ends at j,
\* \.? takes a dot that follows, \d* the digits after it
match_value(text, i, j) ==
    IF j < Len(text) /\ text[j + 1] = "."
    THEN 100 * digits_value(text, i, j)
             + decimals_value(text, j + 2, digits_end(text, j + 2))
    ELSE 100 * digits_value(text, i, j)

\* re.search: the leftmost position where the pattern matches
RECURSIVE search_number(_, _)
search_number(text, i) ==
    IF i > Len(text) THEN <<>>
    ELSE IF IsDigit(text[i])
    THEN <<match_value(text, i, digits_end(text, i))>>
    ELSE search_number(text, i + 1)

\* the line 'Confidence:' followed by conf_text
ConfidenceLine(conf_text) == Line("confidence", search_number(conf_text, 1))

ConfChars == {"0", "1", "5", ".", "-", "%"}

ConfTexts == UNION {[1..n -> ConfChars] : n \in 0..MaxChars}

VerdictTexts ==
    TextsWithSafe \cup TextsWithPhishing \cup {"uncertain", "suspicious"}

\* a reply: a 'Verdict:' line or none, then no, one or two 'Confidence:'
\* lines, with a line of prose in front
VerdictLines ==
    {<<>>} \cup {<<Line("verdict", verdict_text)>> : verdict_text \in VerdictTexts}

ConfidenceLines ==
    {<<>>}
    \cup {<<ConfidenceLine(conf_text)>> : conf_text \in ConfTexts}
    \cup {<<ConfidenceLine(conf_text), ConfidenceLine(<<"n", "/", "a">>)>> :
             conf_text \in ConfTexts}

ParseResponses ==
    {<<Line("other", "Here is my analysis")>> \o v \o c :
        v \in VerdictLines, c \in ConfidenceLines}

InitParse ==
    /\ pc = "parse"
    /\ \E response_text \in ParseResponses :
          trace = <<Event("query_llm", 0, NoUrl, response_text)>>
    /\ context = None
    /\ url_index = 0
    /\ detections = <<>>
    /\ reports = <<>>
    /\ report = None
    /\ returned = None

ParseAgentResponse ==
    /\ pc = "parse"
    /\ trace' = Append(trace, Event("parse_agent_response", 0, NoUrl,
                                    parse_agent_response(trace[1].result)))
    /\ pc' = "parsed"
    /\ UNCHANGED <<context, url_index, detections, reports, report, returned>>

NextParse == ParseAgentResponse

SpecParse == InitParse /\ [][NextParse]_vars

\* --------------------------------- the aggregator in the program's floats
\* Python's float is the IEEE-754 binary64 of the machine.  A positive
\* double is written [m, e]: its value is m * 2^e, with m the natural of
\* SignificandBits bits; 0.0 has m = <<>>.  A natural of any size is the
\* sequence of its limbs (its digits to the base Limb), lowest first, without
\* leading zeros.  Every operation rounds to nearest, ties to even.
\* An intermediate value is computed once and then named: The({F(v) : v \in
\* {e}}) is F(e) with e evaluated a single time.
SignificandBits == 53

LimbBits == 14

Limb == 2^LimbBits

Pow2(k) == 2^k

The(S) == CHOOSE x \in S : TRUE

LimbAt(a, i) == IF 1 <= i /\ i <= Len(a) THEN a[i] ELSE 0

NatTop(a) ==
    CHOOSE k \in 0..Len(a) :
        (k = 0 \/ a[k] # 0) /\ \A j \in (k + 1)..Len(a) : a[j] = 0

NatTrim(a) == The({SubSeq(v, 1, NatTop(v)) : v \in {a}})

\* the limbs of the sum of cols[j] * Limb^(j-1), from column i on
RECURSIVE NatCarryFrom(_, _, _)
NatCarryFrom(cols, i, carry) ==
    IF i > Len(cols) /\ carry = 0 THEN <<>>
    ELSE The({<<sum % Limb>> \o NatCarryFrom(c, j, sum \div Limb) :
              c \in {cols}, j \in {i + 1}, sum \in {LimbAt(cols, i) + carry}})

NatCarry(cols) == The({NatTrim(NatCarryFrom(c, 1, 0)) : c \in {cols}})

NatOf(n) == NatCarry(<<n>>)

NatAddAt(a, b) ==
    NatCarry([i \in 1..Max(Len(a), Len(b)) |-> LimbAt(a, i) + LimbAt(b, i)])

NatAdd(a, b) == The({NatAddAt(x, y) : x \in {a}, y \in {b}})

\* a - b for a >= b
NatSubAt(a, b) == NatCarry([i \in 1..Len(a) |-> a[i] - LimbAt(b, i)])

NatSub(a, b) == The({NatSubAt(x, y) : x \in {a}, y \in {b}})

NatLess(a, b) ==
    IF Len(a) # Len(b) THEN Len(a) < Len(b)
    ELSE \E i \in 1..Len(a) :
            a[i] < b[i] /\ \A j \in (i + 1)..Len(a) : a[j] = b[j]

\* the sum of a[i] * b[k + 1 - i] over the limbs 1..i of a
RECURSIVE NatColumn(_, _, _, _)
NatColumn(a, b, k, i) ==
    IF i = 0 THEN 0
    ELSE a[i] * LimbAt(b, k + 1 - i) + NatColumn(a, b, k, i - 1)

NatMulAt(a, b) ==
    NatCarry([k \in 1..(Len(a) + Len(b)) |-> NatColumn(a, b, k, Len(a))])

NatMul(a, b) == The({NatMulAt(x, y) : x \in {a}, y \in {b}})

\* a * 2^k
NatShlAt(a, k) ==
    [i \in 1..(k \div LimbBits) |-> 0]
    \o NatCarry([i \in 1..Len(a) |-> a[i] * Pow2(k % LimbBits)])

NatShl(a, k) == The({NatTrim(NatShlAt(x, k)) : x \in {a}})

\* a \div 2^k, limb by limb: the high bits of one limb under the low bits
\* of the next
NatShrAt(a, limbs, bits) ==
    [i \in 1..(Len(a) - limbs) |->
        (a[i + limbs] \div Pow2(bits))
        + (LimbAt(a, i + limbs + 1) % Pow2(bits)) * Pow2(LimbBits - bits)]

NatShr(a, k) ==
    The({NatTrim(NatShrAt(x, k \div LimbBits, k % LimbBits)) : x \in {a}})

\* the number of bits of a
NatBitLen(a) ==
    IF a = <<>> THEN 0
    ELSE LimbBits * (Len(a) - 1)
         + (CHOOSE k \in 1..LimbBits :
                Pow2(k - 1) <= a[Len(a)] /\ a[Len(a)] < Pow2(k))

\* bit i of a, the lowest being bit 1
NatBit(a, i) ==
    (LimbAt(a, (i - 1) \div LimbBits + 1) \div Pow2((i - 1) % LimbBits)) % 2

\* some bit of the lowest k bits of a is set
NatAnyBit(a, k) == \E i \in 1..k : NatBit(a, i) = 1

\* 2 * a + bit
NatTwicePlus(a, bit) ==
    NatCarry([i \in 1..Max(Len(a), 1) |->
                 2 * LimbAt(a, i) + (IF i = 1 THEN bit ELSE 0)])

\* one step of the long division by d: s holds the quotient and the
\* remainder of the bits of n above bit i
NatDivPut(d, s, rem) ==
    IF NatLess(rem, d)
    THEN [q |-> NatTwicePlus(s.q, 0), r |-> rem]
    ELSE [q |-> NatTwicePlus(s.q, 1), r |-> NatSub(rem, d)]

NatDivBit(n, d, i, s) ==
    The({NatDivPut(d, s, rem) : rem \in {NatTwicePlus(s.r, NatBit(n, i))}})

\* the steps for the bits hi down to lo of n: the upper half of them, then
\* the lower half
RECURSIVE NatDivBits(_, _, _, _, _)
NatDivBits(n, d, hi, lo, s) ==
    IF hi < lo THEN s
    ELSE IF hi = lo THEN NatDivBit(n, d, hi, s)
    ELSE The({NatDivBits(x, y, mid - 1, lo, upper) :
              x \in {n}, y \in {d}, mid \in {(hi + lo + 1) \div 2},
              upper \in {NatDivBits(n, d, hi, (hi + lo + 1) \div 2, s)}})

NatDivModAt(n, d) == NatDivBits(n, d, NatBitLen(n), 1, [q |-> <<>>, r |-> <<>>])

NatDivMod(n, d) == The({NatDivModAt(x, y) : x \in {n}, y \in {d}})

FloatZero == [m |-> <<>>, e |-> 0]

\* n cut by k bits is raised by one when the cut part is above half, or is
\* half and the kept part is odd (sticky: something follows the cut part)
FloatRoundUp(n, k, sticky) ==
    /\ NatBit(n, k) = 1
    /\ (sticky \/ NatAnyBit(n, k - 1) \/ NatBit(n, k + 1) = 1)

FloatNormal(m, e) ==
    IF NatBitLen(m) > SignificandBits
    THEN [m |-> NatShr(m, 1), e |-> e + 1]
    ELSE [m |-> m, e |-> e]

\* the double nearest to n * 2^e, n having k bits more than a significand
FloatRoundAt(n, e, sticky, k) ==
    IF k <= 0 THEN [m |-> NatShl(n, 0 - k), e |-> e + k]
    ELSE IF FloatRoundUp(n, k, sticky)
    THEN The({FloatNormal(up, e + k) : up \in {NatAdd(NatShr(n, k), <<1>>)}})
    ELSE [m |-> NatShr(n, k), e |-> e + k]

\* the double nearest to n * 2^e (sticky: plus less than one unit of n)
FloatRound(n, e, sticky) ==
    IF n = <<>> THEN FloatZero
    ELSE The({FloatRoundAt(n, e, sticky, k) :
              k \in {NatBitLen(n) - SignificandBits}})

FloatOfDiv(qr, e) == FloatRound(qr.q, e, qr.r # <<>>)

\* a literal or parsed decimal num/den: the double nearest to it
FloatOfRatio(num, den) ==
    The({FloatOfDiv(qr, 0 - 64) :
         qr \in {NatDivMod(NatShl(NatOf(num), 64), NatOf(den))}})

FloatMul(x, y) ==
    The({FloatRound(product, x.e + y.e, FALSE) :
         product \in {NatMul(x.m, y.m)}})

FloatAdd(x, y) ==
    IF x.m = <<>> THEN y
    ELSE IF y.m = <<>> THEN x
    ELSE The({FloatRound(sum, Min(x.e, y.e), FALSE) :
              sum \in {NatAdd(NatShl(x.m, x.e - Min(x.e, y.e)),
                              NatShl(y.m, y.e - Min(x.e, y.e)))}})

FloatDiv(x, y) ==
    The({FloatOfDiv(qr, x.e - 56 - y.e) :
         qr \in {NatDivMod(NatShl(x.m, 56), y.m)}})

FloatLess(x, y) ==
    IF y.m = <<>> THEN FALSE
    ELSE IF x.m = <<>> THEN TRUE
    ELSE IF x.e # y.e THEN x.e < y.e
    ELSE NatLess(x.m, y.m)

\* the order of context.agent_results.items(): the order in which the
\* stages first recorded a result
AgentOrder == <<"SMSAgent", "URLAgent", "ContentAgent", "MetadataAgent">>

\* result['confidence'] * weight
weighted_confidence(result, agent_name) ==
    The({FloatMul(confidence, weight) :
         confidence \in {FloatOfRatio(result.confidence, 100)},
         weight \in {FloatOfRatio(Weight(agent_name), 10)}})

\* the loop of _aggregate_results from position i of the items on, votes
\* the sum so far for `verdict`
RECURSIVE float_votes(_, _, _, _)
float_votes(results, verdict, i, votes) ==
    IF i > Len(AgentOrder) THEN votes
    ELSE IF AgentOrder[i] \in DOMAIN results
            /\ results[AgentOrder[i]].verdict = verdict
    THEN The({float_votes(results, verdict, i + 1, FloatAdd(votes, weighted)) :
              weighted \in {weighted_confidence(results[AgentOrder[i]],
                                                AgentOrder[i])}})
    ELSE float_votes(results, verdict, i + 1, votes)

float_verdict(phishing_votes, safe_votes, total_votes) ==
    IF total_votes = FloatZero
    THEN [verdict |-> "uncertain", confidence |-> FloatOfRatio(1, 2)]
    ELSE IF FloatLess(safe_votes, phishing_votes)
    THEN [verdict |-> "phishing",
          confidence |-> FloatDiv(phishing_votes, total_votes)]
    ELSE IF FloatLess(phishing_votes, safe_votes)
    THEN [verdict |-> "safe",
          confidence |-> FloatDiv(safe_votes, total_votes)]
    ELSE [verdict |-> "uncertain", confidence |-> FloatOfRatio(1, 2)]

float_totals(phishing_votes, safe_votes) ==
    The({float_verdict(phishing_votes, safe_votes, total_votes) :
         total_votes \in {FloatAdd(phishing_votes, safe_votes)}})

\* _aggregate_results as the interpreter computes it
aggregate_results_float(ctx) ==
    The({float_totals(phishing_votes, safe_votes) :
         phishing_votes \in {float_votes(ctx.agent_results, "phishing", 1,
                                         FloatZero)},
         safe_votes \in {float_votes(ctx.agent_results, "safe", 1, FloatZero)}})

\* the confidences the stages record in these runs, in hundredths
FloatConfidences == {40, 50, 80}

FloatResults ==
    [verdict : {"safe", "phishing", "uncertain"},
     confidence : FloatConfidences, reasoning : {"LLM reasoning"}]

FloatInputs == [{"SMSAgent", "URLAgent", "ContentAgent"} -> FloatResults]

InitFloat ==
    /\ pc = "aggregator"
    /\ \E detection_id \in DetectionIds, timestamp \in Timestamps,
          results \in FloatInputs :
          context = [DetectionContext_new(detection_id, timestamp) EXCEPT
                        !.agent_results = results]
    /\ url_index = 0
    /\ detections = <<>>
    /\ reports = <<>>
    /\ report = None
    /\ returned = None
    /\ trace = <<>>

AggregateFloat ==
    /\ pc = "aggregator"
    /\ trace' = <<Event("aggregate", 0, NoUrl, aggregate_results_float(context))>>
    /\ pc' = "aggregated"
    /\ UNCHANGED <<context, url_index, detections, reports, report, returned>>

NextFloat == AggregateFloat

SpecFloat == InitFloat /\ [][NextFloat]_vars

\* ================================================================ claims
LinkStages == <<"URLAgent", "ContentAgent", "MetadataAgent">>

IsLinkStageCall(e) == e.op \in {"URLAgent", "ContentAgent", "MetadataAgent"}

IsAggregateCall(e) == e.op = "aggregate"

\* the calls of link-dependent stages made so far, in order
LinkStageCalls == SelectSeq(trace, IsLinkStageCall)

AggregateCalls == SelectSeq(trace, IsAggregateCall)

\* a recorded result is phishing with a confidence strictly above 0.8
HighPhishing(result) == result.verdict = "phishing" /\ result.confidence > 80

Finishing == pc \in {"save", "report", "write", "return", "done"}

DetectedByOf(op) ==
    IF op = "URLAgent" THEN "URL Analysis"
    ELSE IF op = "ContentAgent" THEN "Content Analysis"
    ELSE "Metadata Analysis"

\* C1: with at least one link and a message-stage result (safe, c), the
\* detection ends at the message stage exactly when c > 0.8: then the final
\* verdict is safe with confidence c, detected by the message stage, and no
\* link-dependent stage is called; with c <= 0.8 (c = 0.80 included) the
\* message stage sets no verdict and the link stages run.
C1_MessageExitIffAboveThreshold ==
    (/\ Len(trace) >= 1
     /\ context.urls_found # <<>>
     /\ trace[1].result.verdict = "safe")
    => IF trace[1].result.confidence > 80
       THEN /\ Finishing
            /\ context.final_verdict = "safe"
            /\ FracEq(context.final_confidence,
                      Frac(trace[1].result.confidence, 100))
            /\ context.detected_by = "SMS Analysis"
            /\ LinkStageCalls = <<>>
       ELSE /\ context.detected_by # "SMS Analysis"
            /\ \/ pc = "layer2" /\ url_index = 1 /\ context.final_verdict = None
               \/ Len(trace) >= 2 /\ trace[2].op = "URLAgent"

C1_Witness ==
    /\ pc = "done"
    /\ context.urls_found # <<>>
    /\ trace[1].result.verdict = "safe"
    /\ trace[1].result.confidence = 81
    /\ returned.verdict = "safe"

\* C2: the link-dependent stages are called link by link in the order of
\* urls_found, URL then content then metadata; a call whose recorded result
\* is phishing with confidence > 0.8 is the last stage call of the
\* detection and sets the final verdict phishing with that confidence and
\* that stage as detected-by; after a call that is not, the next stage of
\* the link, or the first stage of the next link, is where detect stands.
C2_LinkStagesInOrderWithExit ==
    pc # "idle" =>
    LET calls == LinkStageCalls
        n == Len(calls)
    IN /\ \A k \in 1..n :
            /\ calls[k].op = LinkStages[((k - 1) % 3) + 1]
            /\ calls[k].link = ((k - 1) \div 3) + 1
            /\ calls[k].link <= Len(context.urls_found)
            /\ calls[k].url = context.urls_found[calls[k].link]
       /\ \A k \in 1..n :
            HighPhishing(calls[k].result) =>
                /\ k = n
                /\ Finishing
                /\ context.final_verdict = "phishing"
                /\ FracEq(context.final_confidence,
                          Frac(calls[k].result.confidence, 100))
                /\ context.detected_by = DetectedByOf(calls[k].op)
                /\ AggregateCalls = <<>>
       /\ (/\ n >= 1
           /\ ~HighPhishing(calls[n].result)
           /\ n < 3 * Len(context.urls_found))
          => /\ pc = <<"layer2", "layer3", "layer4">>[(n % 3) + 1]
             /\ url_index = (n \div 3) + 1
             /\ context.final_verdict = None

C2_Witness ==
    /\ pc = "done"
    /\ Len(LinkStageCalls) = 5
    /\ HighPhishing(LinkStageCalls[5].result)
    /\ returned.detected_by = "Content Analysis"

\* C3: the Aggregator is called at most once, and only after every link
\* has gone through its three stages with no early exit; the final verdict
\* and confidence are then its output and detected-by is the aggregation;
\* and a detection that runs every stage of every link without an exit does
\* call it.
C3_AggregationOnlyWhenNoExit ==
    pc # "idle" =>
    LET calls == LinkStageCalls
        aggs == AggregateCalls
        noExit == /\ Len(context.urls_found) > 0
                  /\ Len(calls) = 3 * Len(context.urls_found)
                  /\ \A k \in 1..Len(calls) : ~HighPhishing(calls[k].result)
                  /\ ~(trace[1].result.verdict = "safe"
                       /\ trace[1].result.confidence > 80)
    IN /\ Len(aggs) <= 1
       /\ Len(aggs) = 1 =>
            /\ noExit
            /\ context.final_verdict = aggs[1].result.verdict
            /\ context.final_confidence = aggs[1].result.confidence
            /\ context.detected_by = "Aggregated Analysis"
       /\ (Finishing /\ noExit) => Len(aggs) = 1
       /\ context.detected_by = "Aggregated Analysis" => Len(aggs) = 1

C3_Witness ==
    /\ pc = "done"
    /\ Len(context.urls_found) = 2
    /\ Len(AggregateCalls) = 1
    /\ returned.detected_by = "Aggregated Analysis"
    /\ returned.verdict = "phishing"

\* C4: a message from which no link is extracted ends with final verdict
\* safe, and no link-dependent stage is called.
C4_NoLinksIsSafe ==
    (Len(trace) >= 1 /\ context.urls_found = <<>>)
    => /\ context.final_verdict = "safe"
       /\ Finishing
       /\ LinkStageCalls = <<>>

C4_Witness ==
    /\ pc = "done"
    /\ context.sender_message # <<>>
    /\ context.urls_found = <<>>
    /\ returned.verdict = "safe"

\* The sums of the claims, written out agent by agent: confidence x weight
\* (1.0, 1.5, 1.2, 1.0) of each recorded result with the given verdict.
ClaimTerm(results, agent_name, weight, verdict) ==
    IF agent_name \in DOMAIN results /\ results[agent_name].verdict = verdict
    THEN results[agent_name].confidence * weight
    ELSE 0

ClaimVotes(results, verdict) ==
      ClaimTerm(results, "SMSAgent", 10, verdict)
    + ClaimTerm(results, "URLAgent", 15, verdict)
    + ClaimTerm(results, "ContentAgent", 12, verdict)
    + ClaimTerm(results, "MetadataAgent", 10, verdict)

\* C5: _aggregate_results accumulates P = sum of confidence x weight over
\* the phishing results and S = the same over the safe results; when P > S
\* it returns (phishing, P / (P + S)), when S > P it returns
\* (safe, S / (P + S)).
C5_WeightedVote ==
    pc = "aggregated" =>
    LET r == trace[1].result
        P == ClaimVotes(context.agent_results, "phishing")
        S == ClaimVotes(context.agent_results, "safe")
    IN /\ r.phishing_votes = P
       /\ r.safe_votes = S
       /\ P > S => r.verdict = "phishing" /\ FracEq(r.confidence, Frac(P, P + S))
       /\ S > P => r.verdict = "safe" /\ FracEq(r.confidence, Frac(S, P + S))

C5_Witness ==
    /\ pc = "aggregated"
    /\ DOMAIN context.agent_results = AgentNames
    /\ context.agent_results["URLAgent"].verdict = "phishing"
    /\ context.agent_results["ContentAgent"].verdict = "safe"
    /\ context.agent_results["SMSAgent"].verdict = "uncertain"
    /\ ClaimVotes(context.agent_results, "safe") > 0
    /\ trace[1].result.verdict = "phishing"
    /\ FracLess(trace[1].result.confidence, Frac(1, 1))

RECURSIVE InvocationVotes(_, _)
InvocationVotes(events, verdict) ==
    IF events = <<>> THEN 0
    ELSE (IF events[1].op \in AgentNames /\ events[1].result.verdict = verdict
          THEN events[1].result.confidence * Weight(events[1].op)
          ELSE 0)
         + InvocationVotes(Tail(events), verdict)

\* C7: when a message with k >= 2 links reaches aggregation, the
\* accumulators hold one term for every stage invocation of the detection:
\* k URL-stage, k content-stage and k metadata-stage results plus the
\* message-stage result.
C7_EveryInvocationVotes ==
    \A i \in 1..Len(trace) :
        (trace[i].op = "aggregate" /\ Len(context.urls_found) >= 2) =>
        LET before == SubSeq(trace, 1, i - 1)
        IN /\ trace[i].result.phishing_votes = InvocationVotes(before, "phishing")
           /\ trace[i].result.safe_votes = InvocationVotes(before, "safe")

\* C8: a stage result, once stored, is never replaced: every result a stage
\* produced during the detection is still stored under its key, unchanged.
C8_ResultsNeverReplaced ==
    \A i \in 1..Len(trace) :
        trace[i].op \in AgentNames =>
        /\ trace[i].op \in DOMAIN context.agent_results
        /\ context.agent_results[trace[i].op] = trace[i].result

\* C9: in every state of a detection risk_score is the sum of the points of
\* red_flags; add_risk appends exactly one entry with the reason, agent and
\* points of the call; no step removes, reorders or edits an entry of
\* red_flags or green_flags.
C9_RiskScoreIsSumOfRedFlags ==
    [][/\ pc' # "idle" =>
            /\ context'.risk_score = SumPoints(context'.red_flags)
            /\ \A points \in {5, 40} :
                 LET after == add_risk(context', points, "reason", "URLAgent")
                 IN /\ after.red_flags =
                         Append(context'.red_flags,
                                [agent |-> "URLAgent", reason |-> "reason",
                                 points |-> points])
                    /\ after.risk_score = SumPoints(after.red_flags)
                    /\ after.green_flags = context'.green_flags
       /\ pc # "idle" =>
            /\ IsPrefix(context.red_flags, context'.red_flags)
            /\ IsPrefix(context.green_flags, context'.green_flags)]_vars

C9_Witness ==
    /\ pc = "done"
    /\ Len(context.urls_found) >= 2
    /\ Len(context.red_flags) >= 3
    /\ Len(context.green_flags) >= 1
    /\ context.risk_score = SumPoints(context.red_flags)
    /\ context.risk_score > 0

\* C10: final_verdict and final_confidence are assigned at most once, by an
\* early-exit rule or by the aggregation, and no later step (persisting,
\* report building, report writing, returning) changes them.
C10_VerdictAssignedOnce ==
    [][/\ pc' # "idle" =>
            ((context'.final_verdict # None) <=>
                 pc' \in {"save", "report", "write", "return", "done"})
       /\ (pc # "idle" /\ context.final_verdict # None) =>
            /\ context'.final_verdict = context.final_verdict
            /\ context'.final_confidence = context.final_confidence
            /\ context'.detected_by = context.detected_by]_vars

C10_Witness ==
    /\ pc = "done"
    /\ context.final_verdict = "phishing"
    /\ context.detected_by = "Content Analysis"
    /\ from_json(detections[detection_filename(context)]).final_verdict = "phishing"

\* the browser of expand_url_with_selenium fails on this link (the except
\* branches of lines 213-220)
selenium_fails(url) == url.host \in {"dead.com", "down.net"}

\* a stage result that records a failure: verdict uncertain, low confidence
FailureRecorded(result) ==
    result.verdict = "uncertain" /\ result.confidence <= 50

\* C11: an ordinary failure of a stage's external call (browser or link
\* resolution failure, fetch failure, oracle unavailable) leaves for that
\* stage a result with verdict uncertain and a low fixed confidence.
C11_StageFailureIsUncertain ==
    [][/\ \A response \in SMSReplies :
            (Layer1(response) /\ context'.urls_found # <<>>
                              /\ response = NoReply)
            => FailureRecorded(context'.agent_results["SMSAgent"])
       /\ \A response \in URLReplies :
            (Layer2(response)
             /\ (selenium_fails(context.urls_found[url_index])
                 \/ response = NoReply))
            => FailureRecorded(context'.agent_results["URLAgent"])
       /\ \A response \in ContentReplies :
            (Layer3(response)
             /\ (extract_content_features(
                     context.urls_found[url_index]).error # None
                 \/ response = NoReply))
            => FailureRecorded(context'.agent_results["ContentAgent"])
       /\ \A response \in MetadataReplies :
            (Layer4(response)
             /\ (extract_metadata_features(
                     context.urls_found[url_index]).error # None
                 \/ response = NoReply))
            => FailureRecorded(context'.agent_results["MetadataAgent"])]_vars

\* the operations recorded in the history, in order
Ops == [i \in 1..Len(trace) |-> trace[i].op]

IsSaveCall(e) == e.op \in {"save_detection", "save_detection_raises"}

\* C12: on every path by which detect finishes, the final verdict is set
\* first, then the context is persisted exactly once, then the report is
\* built, then the report is written, and only then the result is returned;
\* no path returns without having persisted the context.
C12_VerdictSaveReportReturn ==
    LET n == Len(trace)
        file == detection_filename(context)
    IN /\ pc \in {"report", "write", "return", "done"} =>
            /\ context.final_verdict # None
            /\ Len(SelectSeq(trace, IsSaveCall)) = 1
            /\ file \in DOMAIN detections
            /\ detections[file] = to_json(context)
       /\ pc = "report" => Ops[n] = "save_detection"
       /\ pc = "write" =>
            /\ SubSeq(Ops, n - 1, n) = <<"save_detection", "generate_report">>
            /\ report = generate_report(context, detections)
       /\ pc \in {"return", "done"} =>
            /\ SubSeq(Ops, n - 2, n) =
                   <<"save_detection", "generate_report", "save_report_to_file">>
            /\ report_filename(context) \in DOMAIN reports
       /\ pc = "done" => returned = create_final_report(context, report)
       /\ pc \in {"idle", "layer1", "layer2", "layer3", "layer4", "aggregate",
                  "save", "raised"} => returned = None

C12_Witness ==
    /\ pc = "done"
    /\ context.detected_by = "Metadata Analysis"
    /\ Len(context.urls_found) >= 2
    /\ Len(SelectSeq(trace, IsSaveCall)) = 1
    /\ detections[detection_filename(context)] = to_json(context)

\* C13: when the write inside save_detection fails, detect goes on: it
\* builds the report from the in-memory context and returns both; the
\* failure does not abort the detection.
C13_SaveFailureStillReturns ==
    [][(pc = "save" /\ trace'[Len(trace')].op = "save_detection_raises") =>
           /\ pc' = "report"
           /\ context' = context]_vars

\* the records the detections directory holds
StoredRecords == {from_json(detections[f]) : f \in DOMAIN detections}

Asked(op) == pc = "queried" /\ returned.op = op

\* C14: right after save_detection(ctx), load_detection with ctx's full id
\* returns a record equal to ctx, and so does load_detection with a prefix
\* of that id that is a prefix of no other stored detection's id.
C14_LoadByIdAfterSave ==
    (Asked("load_detection") /\ Len(trace) >= 1
        /\ trace[Len(trace)].op = "detect") =>
    LET x == returned.arg
        others == {r.detection_id : r \in StoredRecords}
                      \ {context.detection_id}
    IN (\/ x = context.detection_id
        \/ /\ IsPrefix(x, context.detection_id)
           /\ \A o \in others : ~IsPrefix(x, o))
       => returned.result = <<context>>

\* C15: load_detection(x) returns a record only when x is the id or a prefix
\* of the id of exactly one stored detection, and then that detection's
\* record; otherwise it returns None.
C15_LoadByIdOnlyUnambiguous ==
    Asked("load_detection") =>
    LET x == returned.arg
        matches == {r \in StoredRecords : IsPrefix(x, r.detection_id)}
    IN /\ returned.result # <<>> =>
            /\ Cardinality(matches) = 1
            /\ returned.result[1] \in matches
       /\ Cardinality(matches) # 1 => returned.result = <<>>

\* C17: every completed detection has its own persisted record and its own
\* report document: a later detection overwrites neither (checked while no
\* cleanup has deleted anything).
C17_OneRecordAndReportEach ==
    SelectSeq(trace, IsCleanupEvent) = <<>> =>
    \A i \in 1..Len(Completed) :
        /\ detection_filename(Completed[i]) \in DOMAIN detections
        /\ from_json(detections[detection_filename(Completed[i])])
               = Completed[i]
        /\ report_filename(Completed[i]) \in DOMAIN reports
        /\ reports[report_filename(Completed[i])].detection_id
               = Completed[i].detection_id

\* C18: load_latest returns the stored detection with the greatest creation
\* timestamp (None only for an empty store), also when several detections
\* were created within one second.
C18_LoadLatestIsNewest ==
    Asked("load_latest") =>
    IF StoredRecords = {}
    THEN returned.result = <<>>
    ELSE /\ returned.result # <<>>
         /\ returned.result[1] \in StoredRecords
         /\ \A r \in StoredRecords :
               ~timestamp_lt(returned.result[1].timestamp, r.timestamp)

\* C19: load_all_detections(limit=n), n >= 0, returns min(n, number stored)
\* records, the n newest, newest first; without a limit it returns all of
\* them newest first.
C19_LoadAllHonoursLimit ==
    Asked("load_all_detections") =>
    LET result == returned.result
        count == Cardinality(StoredRecords)
        returned_records == {result[i] : i \in 1..Len(result)}
    IN /\ Len(result) = IF returned.arg = <<>> THEN count
                        ELSE IF returned.arg[1] < count THEN returned.arg[1]
                        ELSE count
       /\ returned_records \subseteq StoredRecords
       /\ \A i, j \in 1..Len(result) :
             i < j => timestamp_lt(result[j].timestamp, result[i].timestamp)
       /\ \A r \in StoredRecords \ returned_records :
             \A i \in 1..Len(result) :
                 timestamp_lt(r.timestamp, result[i].timestamp)

\* C20: cleanup_old_detections(days) deletes exactly the stored detections
\* created before now minus days, returns their number, and leaves every
\* other stored detection (and every report) as it was.
C20_CleanupDeletesExactlyOld ==
    [][(Len(trace') = Len(trace) + 1
        /\ trace'[Len(trace')].op = "cleanup_old_detections") =>
       LET now == trace'[Len(trace')].result[1]
           days == trace'[Len(trace')].result[2]
           cutoff == [sec |-> now.sec - days * 86400, usec |-> now.usec]
           old == {f \in DOMAIN detections :
                      timestamp_lt(from_json(detections[f]).timestamp, cutoff)}
       IN /\ DOMAIN detections' = (DOMAIN detections) \ old
          /\ \A f \in DOMAIN detections' : detections'[f] = detections[f]
          /\ returned'.result = Cardinality(old)
          /\ reports' = reports]_vars

\* a cleanup with a retention of one day that deleted one detection and
\* kept the other
C20_Witness ==
    /\ Asked("cleanup_old_detections")
    /\ returned.arg[2] = 1
    /\ returned.result = 1
    /\ Len(Completed) = 2
    /\ DOMAIN detections = {detection_filename(Completed[2])}

\* C16: to_json followed by from_json gives back a context equal to the
\* one the pipeline produced, in every field, the per-stage results with
\* their feature payloads included.
C16_JsonRoundTrip ==
    pc \in {"report", "write", "return", "done"} =>
        from_json(to_json(context)) = context

\* the positions of detect between the assignment of the verdict and the
\* return
VerdictSet == {"save", "report", "write", "return"}

\* C21: from the moment the final verdict is set until detect returns, no
\* step (persisting, generate_report, save_report_to_file, building the
\* return value) changes any field of the Context.
C21_ContextFrozenAfterVerdict ==
    [][(pc \in VerdictSet) => (context' = context)]_vars

\* detect has returned a context with flags, and the report built from it
\* shows the same flags
C21_Witness ==
    /\ pc = "done"
    /\ context.red_flags # <<>>
    /\ report.forensic_timeline.red = context.red_flags
    /\ returned.context = context
    /\ reports[report_filename(context)] = report

\* the lines of a reply that start with key
LinesOf(response_text, key) ==
    SelectSeq(response_text, LAMBDA line : line.key = key)

\* C22: parse_agent_response takes the first number of the 'Confidence:'
\* line, keeps a value of at most 1, divides a value above 1 by 100 and
\* clamps to [0,1]; the parsed confidence is in [0,1] for every reply and is
\* 0.0 when no 'Confidence:' line holds a number.
C22_ConfidenceParsedAndClamped ==
    pc = "parsed" =>
    LET conf == LinesOf(trace[1].result, "confidence")
        numbered == SelectSeq(conf, LAMBDA line : line.value # <<>>)
        confidence == trace[2].result.confidence
    IN /\ confidence \in 0..100
       /\ numbered = <<>> => confidence = 0
       /\ Len(numbered) = 1 =>
            LET value == numbered[1].value[1]
            IN confidence = IF value <= 100 THEN value
                            ELSE IF value \div 100 <= 100 THEN value \div 100
                            ELSE 100

\* 'Confidence: 150' is read as a percentage and clamped to 1.0
C22_Witness ==
    /\ pc = "parsed"
    /\ Len(LinesOf(trace[1].result, "confidence")) = 1
    /\ LinesOf(trace[1].result, "confidence")[1].value = <<15000>>
    /\ trace[2].result.confidence = 100

\* C23: the parsed verdict is safe when the 'Verdict:' value is recognised
\* as safe, phishing when it is recognised as phishing, uncertain otherwise
\* (also without a 'Verdict:' line); a value that names phishing (both
\* words, or a negated 'safe') never becomes safe.
NamesPhishing == {"phishing", "safe/phishing", "unsafe", "not safe"}

C23_VerdictNormalised ==
    pc = "parsed" =>
    LET verdicts == LinesOf(trace[1].result, "verdict")
        verdict == trace[2].result.verdict
    IN /\ verdict \in {"safe", "phishing", "uncertain"}
       /\ verdicts = <<>> => verdict = "uncertain"
       /\ verdicts # <<>> =>
            /\ verdicts[1].value = "safe" => verdict = "safe"
            /\ verdicts[1].value = "phishing" => verdict = "phishing"
            /\ verdicts[1].value \in NamesPhishing => verdict # "safe"
            /\ verdicts[1].value \in {"uncertain", "suspicious"} =>
                   verdict = "uncertain"

\* the tokens of a message that are links, in the order of the text, each
\* written the way the message stage stores a link
IsLink(tok) == tok.scheme # "" \/ tok.www

StoredForm(tok) ==
    [tok EXCEPT !.scheme = IF @ = "" THEN "http://" ELSE @, !.dot = FALSE]

LinksInTextOrder(text) ==
    LET links == SelectSeq(text, IsLink)
    IN [i \in 1..Len(links) |-> StoredForm(links[i])]

\* C24: context.urls_found lists the links in the order of their first
\* appearance in the message text (a 'www.' link written before an
\* 'http://' link comes first), and the link stages run in that order.
C24_LinksInOrderOfAppearance ==
    pc \notin {"idle", "layer1"} =>
        /\ context.urls_found = LinksInTextOrder(context.sender_message)
        /\ \A i, j \in 1..Len(trace) :
              (i < j /\ trace[i].link > 0 /\ trace[j].link > 0) =>
                  trace[i].link <= trace[j].link

\* C25: context.url_shortener_used is monotone within a detection: it is
\* true exactly when one of the links analysed so far resolved to a
\* different final URL, and so it is at the end of detect.
C25_ShortenerFlagMonotone ==
    pc # "idle" =>
        (context.url_shortener_used <=>
            \E i \in 1..Len(trace) :
                /\ trace[i].op = "URLAgent"
                /\ trace[i].result.expanded_url # trace[i].url)

\* the results recorded without an answer of the oracle
IsStageEvent(e) ==
    e.op \in {"SMSAgent", "URLAgent", "ContentAgent", "MetadataAgent"}

FallbackReasonings ==
    {"Analyzed using heuristics", "Unable to analyze with LLM, but URLs detected"}

OracleNeverAnswered ==
    \A i \in 1..Len(trace) :
        IsStageEvent(trace[i]) => trace[i].result.reasoning # "LLM reasoning"

EveryLinkResolved ==
    \A i \in 1..Len(trace) :
        trace[i].op = "URLAgent" =>
            trace[i].result.reasoning
                # "This link was expired and is probably a phishing link"

FallbackNeverExits ==
    /\ \A i \in 1..Len(trace) :
          (IsStageEvent(trace[i])
              /\ trace[i].result.reasoning \in FallbackReasonings) =>
                  /\ trace[i].result.confidence <= 70
                  /\ trace[i].result.confidence < CONFIDENCE_THRESHOLD_HIGH

\* C26 as stated: every confidence of a fallback heuristic is at most 0.7,
\* below CONFIDENCE_THRESHOLD_HIGH, so with the oracle unavailable for the
\* whole detection and every link resolving, the final verdict is always
\* the Aggregator's.
C26_FallbackAlwaysAggregates ==
    /\ FallbackNeverExits
    /\ (Finishing /\ OracleNeverAnswered /\ EveryLinkResolved) =>
           context.detected_by = "Aggregated Analysis"

\* C26 amended: the same for a message in which the message stage found at
\* least one link.
C26_FallbackAggregatesWithLinks ==
    /\ FallbackNeverExits
    /\ (Finishing /\ OracleNeverAnswered /\ EveryLinkResolved
            /\ context.urls_found # <<>>) =>
           context.detected_by = "Aggregated Analysis"

\* a detection without the oracle in which a heuristic voted phishing with
\* 0.7 and the Aggregator decided
C26_Witness ==
    /\ pc = "done"
    /\ OracleNeverAnswered /\ EveryLinkResolved
    /\ context.urls_found # <<>>
    /\ context.agent_results["URLAgent"].verdict = "phishing"
    /\ context.agent_results["URLAgent"].confidence = 70
    /\ context.agent_results["URLAgent"].reasoning = "Analyzed using heuristics"
    /\ context.detected_by = "Aggregated Analysis"

\* C27: the risk score, reported as 'N/100', is at most 100 at the end of
\* every detection.
C27_RiskScoreAtMost100 ==
    Finishing => context.risk_score <= 100

\* C28: when the message stage extracts no link it records (safe, 0.9)
\* whatever the oracle would answer, and the detection ends through the
\* message stage's high-confidence rule (safe with a confidence above
\* CONFIDENCE_THRESHOLD_HIGH) with final verdict safe and final confidence
\* exactly 0.9: the 'no URLs found' branch never sets the verdict.
C28_NoLinksEndsByHighConfidenceRule ==
    (pc \notin {"idle", "layer1"} /\ context.urls_found = <<>>) =>
        /\ trace[1].op = "SMSAgent"
        /\ trace[1].result.verdict = "safe"
        /\ trace[1].result.confidence = 90
        /\ trace[1].result.confidence > CONFIDENCE_THRESHOLD_HIGH
        /\ trace[1].result.reasoning = "No URLs detected in SMS message"
        /\ Finishing
        /\ context.final_verdict = "safe"
        /\ context.final_confidence = Frac(90, 100)
        /\ context.detected_by = "SMS Analysis"
        /\ \A i \in 2..Len(trace) : ~IsStageEvent(trace[i])

\* a message of two words and no link, through to the return
C28_Witness ==
    /\ pc = "done"
    /\ Len(context.sender_message) = 2
    /\ context.urls_found = <<>>
    /\ returned.verdict = "safe"
    /\ returned.confidence = Frac(90, 100)

\* the calls of one stage on the link at one position
StageCalls(op, link) ==
    SelectSeq(trace, LAMBDA e : e.op = op /\ e.link = link)

CallsBounded ==
    pc # "idle" =>
        /\ Len(StageCalls("SMSAgent", 0)) <= 1
        /\ pc # "layer1" => Len(StageCalls("SMSAgent", 0)) = 1
        /\ \A i \in 1..Len(trace) :
              trace[i].link > 0 =>
                  /\ trace[i].link <= Len(context.urls_found)
                  /\ Len(StageCalls(trace[i].op, trace[i].link)) = 1

EndsDecided ==
    pc = "done" =>
        /\ context.final_verdict \in {"safe", "phishing", "uncertain"}
        /\ context.detected_by # None
        /\ returned.verdict = context.final_verdict

\* C29: when every stage call returns, detect terminates for every message:
\* the message stage runs once, each link stage at most once per position
\* of the link list, and detect ends with final_verdict one of safe,
\* phishing, uncertain and detected_by set.
C29_DetectTerminates ==
    /\ [](CallsBounded /\ EndsDecided)
    /\ (pc = "layer1") ~> (pc = "done")

\* a detection that analysed two links with all three link stages and
\* returned
C29_Witness ==
    /\ pc = "done"
    /\ Len(context.urls_found) = 2
    /\ Len(StageCalls("MetadataAgent", 1)) = 1
    /\ Len(StageCalls("MetadataAgent", 2)) = 1
    /\ context.detected_by = "Aggregated Analysis"

FloatHalf == FloatOfRatio(1, 2)

FloatOne == FloatOfRatio(1, 1)

AggregatorDecided ==
    /\ pc = "aggregated"
    /\ trace[1].result.verdict \in {"phishing", "safe"}

\* C30: the confidence the Aggregator returns lies in [0,1], and when the
\* Aggregator decides phishing or safe its confidence is strictly greater
\* than 0.5 and at most 1.
C30_AggregatorConfidenceAboveHalf ==
    /\ pc = "aggregated" =>
          /\ ~FloatLess(trace[1].result.confidence, FloatZero)
          /\ ~FloatLess(FloatOne, trace[1].result.confidence)
    /\ AggregatorDecided => FloatLess(FloatHalf, trace[1].result.confidence)

====
